---------------------------- MODULE Spec2Model ----------------------------
(***************************************************************************)
(* A model of two parts of the repository:                                 *)
(*                                                                         *)
(*  1. the dynamic-sampling helpers apply_dynamic_factor and               *)
(*     adjusted_factor (sentry.dynamic_sampling.rules.utils), as exercised *)
(*     by tests/sentry/dynamic_sampling/test_utils.py;                     *)
(*  2. the source-map debug endpoint                                       *)
(*     (sentry/api/endpoints/source_map_debug_blue_thunder_edition.py).    *)
(*                                                                         *)
(* Numbers of part 1 are exact rationals <<n, d>> in lowest terms with     *)
(* d > 0.  IEEE-754 rounding is not modelled: the float literal            *)
(* 0.35999999999999993 of the test table (the double one ulp below 0.36,   *)
(* which is what 1.0 * (0.036 / 0.1) rounds to) is the rational 9/25.      *)
(***************************************************************************)
EXTENDS Integers, Sequences, FiniteSets, TLC

VARIABLES
    \* ---- part 1: dynamic sampling helpers
    call,       \* the last call made: [fn, args]
    outcome,    \* what that call did: [kind |-> "value" | "error", val]
    test,       \* the last test case run: [name, row, passed]
    loop,       \* the feedback loop: [factor, actual, desired, period, prev, first]
    \* ---- part 2: the source-map debug endpoint
    features,   \* is the organization's blue-thunder feature flag on
    eventstore, \* the events stored under the requested id: {} or {event}
    db,         \* the rows of the tables the endpoint queries
    sdk_index,  \* the SDK release registry: [ok, keys]
    response    \* the endpoint's answer: [status, ...]

samplingVars == <<call, outcome, test, loop>>
endpointVars == <<features, eventstore, db, sdk_index, response>>
vars == <<call, outcome, test, loop, features, eventstore, db, sdk_index, response>>

None == "None"

----------------------------------------------------------------------------
(* Exact rational arithmetic.                                              *)

RECURSIVE Gcd(_, _)
Gcd(a, b) == IF b = 0 THEN a ELSE Gcd(b, a % b)

Abs(a) == IF a < 0 THEN -a ELSE a

\* n/d in lowest terms, denominator positive (d /= 0)
Rat(n, d) ==
    LET g == Gcd(Abs(n), Abs(d))
        s == IF d < 0 THEN -1 ELSE 1
    IN  <<(s * n) \div g, (s * d) \div g>>

RMul(p, q) == Rat(p[1] * q[1], p[2] * q[2])
RDiv(p, q) == Rat(p[1] * q[2], p[2] * q[1])
RAdd(p, q) == Rat(p[1] * q[2] + q[1] * p[2], p[2] * q[2])
RSub(p, q) == Rat(p[1] * q[2] - q[1] * p[2], p[2] * q[2])
RLt(p, q) == p[1] * q[2] < q[1] * p[2]
RLe(p, q) == p[1] * q[2] <= q[1] * p[2]

RECURSIVE RPow(_, _)
RPow(p, k) == IF k = 0 THEN <<1, 1>> ELSE RMul(p, RPow(p, k - 1))

Zero == <<0, 1>>
One == <<1, 1>>

----------------------------------------------------------------------------
(* The helpers.  A call's outcome is a value or an error.                  *)

Value(v) == [kind |-> "value", val |-> v]
Error == [kind |-> "error", val |-> None]

\* x ** (1 - base_sample_rate), a real that is irrational in general, kept
\* as the root rad^(1/idx): with base_sample_rate = p/q in lowest terms it
\* is (x^(q-p))^(1/q).
Root(rad, idx) == [rad |-> rad, idx |-> idx]

apply_dynamic_factor(base_sample_rate, x) ==
    IF RLe(x, Zero) THEN Error
    ELSE IF RLt(base_sample_rate, Zero) \/ RLt(One, base_sample_rate) THEN Error
    ELSE Value(Root(RPow(x, base_sample_rate[2] - base_sample_rate[1]),
                    base_sample_rate[2]))

\* guards only the division by zero
adjusted_factor_unchecked(prev_factor, actual_rate, desired_sample_rate) ==
    IF actual_rate = Zero THEN Error
    ELSE Value(RMul(prev_factor, RDiv(desired_sample_rate, actual_rate)))

adjusted_factor(prev_factor, actual_rate, desired_sample_rate) ==
    IF RLe(actual_rate, Zero) \/ RLe(desired_sample_rate, Zero) THEN Error
    ELSE Value(RMul(prev_factor, RDiv(desired_sample_rate, actual_rate)))

----------------------------------------------------------------------------
(* Fixed-point powers in thousandths, rounded outwards, for comparing a    *)
(* root with a decimal literal: PowDown(a, k) <= a^k <= PowUp(a, k).       *)

Milli == 1000

CeilDiv(a, b) == (a + b - 1) \div b

RECURSIVE PowUp(_, _)
PowUp(a, k) == IF k = 0 THEN Milli ELSE CeilDiv(a * PowUp(a, k - 1), Milli)

RECURSIVE PowDown(_, _)
PowDown(a, k) == IF k = 0 THEN Milli ELSE (a * PowDown(a, k - 1)) \div Milli

\* pytest.approx(expected), at the precision the table's literals are kept
\* to: the root is certainly within ApproxTol thousandths of expected.
ApproxTol == 2

approx(root, expected) ==
    /\ PowUp(expected - ApproxTol, root.idx) * root.rad[2] <= Milli * root.rad[1]
    /\ Milli * root.rad[1] <= PowDown(expected + ApproxTol, root.idx) * root.rad[2]

\* the root is certainly further than ApproxTol thousandths from expected
approx_refuted(root, expected) ==
    \/ Milli * root.rad[1] < PowDown(expected - ApproxTol, root.idx) * root.rad[2]
    \/ PowUp(expected + ApproxTol, root.idx) * root.rad[2] < Milli * root.rad[1]

----------------------------------------------------------------------------
(* The test tables of tests/sentry/dynamic_sampling/test_utils.py.         *)

\* expected is in thousandths, the literal truncated:
\* 2.0, 1.8660659830736148, 1.7320508075688774, 1.0
valid_rows ==
    << [base_sample_rate |-> Rat(0, 1),  x |-> Rat(2, 1), expected |-> 2000],
       [base_sample_rate |-> Rat(1, 10), x |-> Rat(2, 1), expected |-> 1866],
       [base_sample_rate |-> Rat(1, 2),  x |-> Rat(3, 1), expected |-> 1732],
       [base_sample_rate |-> Rat(1, 1),  x |-> Rat(4, 1), expected |-> 1000] >>

\* the last case expecting the factor x itself
valid_params_uncancelled == [valid_rows EXCEPT ![4].expected = 4000]

\* the third case expecting sqrt(3.0^2 * 0.5 + 0.5^2) = 2.179...
valid_params_design == [valid_rows EXCEPT ![3].expected = 2179]

valid_params == valid_rows

\* (-0.1, 1.5), (1.1, 2.5), (0.5, 0)
invalid_rows ==
    << [base_sample_rate |-> Rat(-1, 10), x |-> Rat(3, 2)],
       [base_sample_rate |-> Rat(11, 10), x |-> Rat(5, 2)],
       [base_sample_rate |-> Rat(1, 2),   x |-> Rat(0, 1)] >>

\* the second case at the endpoint 1.0 instead of 1.1
invalid_params_endpoint == [invalid_rows EXCEPT ![2].base_sample_rate = Rat(1, 1)]

invalid_params == invalid_rows

\* (1.0, 1.0, 1.0, 1.0), (1.0, 0.1, 0.036, 0.35999999999999993),
\* (0.35999999999999993, 0.036, 0.036, 0.35999999999999993), (1.0, 0.25, 0.5, 2.0)
adjusted_factor_rows ==
    << [prev_factor |-> Rat(1, 1), actual_rate |-> Rat(1, 1),
        desired_sample_rate |-> Rat(1, 1), expected_adj_factor |-> Rat(1, 1)],
       [prev_factor |-> Rat(1, 1), actual_rate |-> Rat(1, 10),
        desired_sample_rate |-> Rat(36, 1000), expected_adj_factor |-> Rat(36, 100)],
       [prev_factor |-> Rat(36, 100), actual_rate |-> Rat(36, 1000),
        desired_sample_rate |-> Rat(36, 1000), expected_adj_factor |-> Rat(36, 100)],
       [prev_factor |-> Rat(1, 1), actual_rate |-> Rat(1, 4),
        desired_sample_rate |-> Rat(1, 2), expected_adj_factor |-> Rat(2, 1)] >>

\* the second case expecting 1.0 * sqrt(0.036 / 0.1) = 0.6
adjusted_factor_params_sqrt ==
    [adjusted_factor_rows EXCEPT ![2].expected_adj_factor = Rat(6, 10)]

\* the third case expecting the desired rate instead of the factor
adjusted_factor_params_rate ==
    [adjusted_factor_rows EXCEPT ![3].expected_adj_factor = Rat(36, 1000)]

\* the third case still at the first period's observed rate
adjusted_factor_params_stale ==
    [adjusted_factor_rows EXCEPT ![3].actual_rate = Rat(1, 10)]

adjusted_factor_params == adjusted_factor_rows

----------------------------------------------------------------------------
(* Inputs.                                                                 *)

MaxNum == 4     \* numerators run over -1 .. MaxNum
MaxDen == 2     \* denominators run over 1 .. MaxDen

Numbers == {Rat(n, d) : n \in -1..MaxNum, d \in 1..MaxDen}

\* sample rates, from just below 0 to just above 1
Rates == {Rat(n, d) : n \in -1..(MaxDen + 1), d \in 1..MaxDen}

NoOutcome == [kind |-> "none", val |-> None]
NoTest == [name |-> "none", row |-> 0, passed |-> FALSE]
NoLoop == [factor |-> One, actual |-> One, desired |-> One, period |-> 0,
           prev |-> One, first |-> <<One, One, One>>]

\* the calls a run may start with: a helper on drawn arguments, or one
\* parametrized case of one test
Calls ==
    {[fn |-> "apply_dynamic_factor", args |-> <<b, x>>] :
        b \in Rates, x \in Numbers}
    \cup {[fn |-> "adjusted_factor", args |-> <<f, a, d>>] :
        f \in Numbers, a \in Numbers, d \in Numbers}
    \cup {[fn |-> "test_apply_dynamic_factor_with_valid_params", args |-> <<i>>] :
        i \in DOMAIN valid_params}
    \cup {[fn |-> "test_apply_dynamic_factor_with_invalid_params", args |-> <<i>>] :
        i \in DOMAIN invalid_params}
    \cup {[fn |-> "test_adjusted_factor", args |-> <<i>>] :
        i \in DOMAIN adjusted_factor_params}

\* an optional value: None is <<>>, a present v is <<v>>
Nothing == <<>>
Some(v) == <<v>>

NoResponse == [status |-> 0]
EmptyDb == [releases |-> {}, release_files |-> {}, release_artifact_bundles |-> {},
            debug_id_artifact_bundles |-> {}, sourcemap_reference |-> None]
NoRegistry == [ok |-> FALSE, keys |-> {}]

EndpointIdle ==
    /\ features = FALSE
    /\ eventstore = {}
    /\ db = EmptyDb
    /\ sdk_index = NoRegistry
    /\ response = NoResponse

NoCall == [fn |-> "none", args |-> <<>>]

SamplingIdle == call = NoCall /\ outcome = NoOutcome /\ test = NoTest
LoopIdle == loop = NoLoop

----------------------------------------------------------------------------
(* Part 1: calls of the helpers, and the tests.                            *)

Pending == outcome = NoOutcome /\ test = NoTest

CallApplyDynamicFactor ==
    /\ Pending
    /\ call.fn = "apply_dynamic_factor"
    /\ outcome' = apply_dynamic_factor(call.args[1], call.args[2])
    /\ UNCHANGED <<call, test, loop, endpointVars>>

CallAdjustedFactor ==
    /\ Pending
    /\ call.fn = "adjusted_factor"
    /\ outcome' = adjusted_factor(call.args[1], call.args[2], call.args[3])
    /\ UNCHANGED <<call, test, loop, endpointVars>>

\* assert apply_dynamic_factor(base_sample_rate, x) == pytest.approx(expected)
test_apply_dynamic_factor_with_valid_params ==
    /\ Pending
    /\ call.fn = "test_apply_dynamic_factor_with_valid_params"
    /\ LET p == valid_params[call.args[1]]
           r == apply_dynamic_factor(p.base_sample_rate, p.x)
       IN  /\ outcome' = r
           /\ test' = [name |-> "valid_params", row |-> call.args[1],
                       passed |-> r.kind = "value" /\ approx(r.val, p.expected)]
    /\ UNCHANGED <<call, loop, endpointVars>>

\* with pytest.raises(Exception): apply_dynamic_factor(base_sample_rate, x)
test_apply_dynamic_factor_with_invalid_params ==
    /\ Pending
    /\ call.fn = "test_apply_dynamic_factor_with_invalid_params"
    /\ LET p == invalid_params[call.args[1]]
           r == apply_dynamic_factor(p.base_sample_rate, p.x)
       IN  /\ outcome' = r
           /\ test' = [name |-> "invalid_params", row |-> call.args[1],
                       passed |-> r.kind = "error"]
    /\ UNCHANGED <<call, loop, endpointVars>>

\* assert adjusted_factor(prev_factor, actual_rate, desired_sample_rate)
\*        == expected_adj_factor
test_adjusted_factor ==
    /\ Pending
    /\ call.fn = "test_adjusted_factor"
    /\ LET p == adjusted_factor_params[call.args[1]]
           r == adjusted_factor(p.prev_factor, p.actual_rate, p.desired_sample_rate)
       IN  /\ outcome' = r
           /\ test' = [name |-> "adjusted_factor", row |-> call.args[1],
                       passed |-> r.kind = "value" /\ r.val = p.expected_adj_factor]
    /\ UNCHANGED <<call, loop, endpointVars>>

SamplingInit ==
    /\ call \in Calls
    /\ outcome = NoOutcome
    /\ test = NoTest
    /\ LoopIdle
    /\ EndpointIdle

SamplingNext ==
    \/ CallApplyDynamicFactor
    \/ CallAdjustedFactor
    \/ test_apply_dynamic_factor_with_valid_params
    \/ test_apply_dynamic_factor_with_invalid_params
    \/ test_adjusted_factor

SamplingSpec == SamplingInit /\ [][SamplingNext]_vars

----------------------------------------------------------------------------
(* Part 1: the feedback loop the caller runs around adjusted_factor, once  *)
(* per evaluation period.  The observed rate follows the factor in force   *)
(* in proportion, as in the test's pair 1.0/0.1 -> 0.36/0.036.             *)

MaxPeriods == 3

Positive == {q \in Numbers : RLt(Zero, q)}

\* starting factors, observed rates and desired rates; the test's period
\* (1.0, 0.1, 0.036) is among them
LoopFactors == Positive
LoopActuals == Positive \cup {adjusted_factor_params[2].actual_rate}
LoopDesired == {q \in Positive : RLe(q, One)}
                 \cup {adjusted_factor_params[2].desired_sample_rate}

LoopInit ==
    /\ SamplingIdle
    /\ EndpointIdle
    /\ \E f \in LoopFactors, a \in LoopActuals, d \in LoopDesired :
          loop = [factor |-> f, actual |-> a, desired |-> d, period |-> 0,
                  prev |-> f, first |-> <<f, a, d>>]

\* one evaluation period: the factor is adjusted, and the next observed
\* rate is the old one scaled by new factor / old factor
AdjustPeriod ==
    /\ loop.period < MaxPeriods
    /\ LET r == adjusted_factor(loop.factor, loop.actual, loop.desired)
       IN  /\ r.kind = "value"
           /\ loop' = [loop EXCEPT
                         !.factor = r.val,
                         !.actual = RMul(loop.actual, RDiv(r.val, loop.factor)),
                         !.prev = loop.factor,
                         !.period = loop.period + 1]
    /\ UNCHANGED <<call, outcome, test, endpointVars>>

LoopNext == AdjustPeriod

LoopSpec == LoopInit /\ [][LoopNext]_vars

----------------------------------------------------------------------------
(* Part 1: the claims about the helpers.                                   *)

Returned(fn) == call.fn = fn /\ outcome # NoOutcome

\* prev_factor > 0, actual_rate > 0, 0 < desired_sample_rate <= 1
ValidAdjustArgs(f, a, d) ==
    RLt(Zero, f) /\ RLt(Zero, a) /\ RLt(Zero, d) /\ RLe(d, One)

\* 0 <= base_sample_rate <= 1, x > 0
ValidApplyArgs(b, x) == RLe(Zero, b) /\ RLe(b, One) /\ RLt(Zero, x)

\* the real root.rad^(1/root.idx) is the rational q
RootIs(root, q) == root.rad = RPow(q, root.idx)

\* its square is the rational q
RootSquareIs(root, q) == RPow(root.rad, 2) = RPow(q, root.idx)

\* C1: for every valid input adjusted_factor returns
\* prev_factor * desired_sample_rate / actual_rate, the plain ratio (stated
\* cross-multiplied: result * actual_rate = prev_factor * desired_sample_rate);
\* the test's cases hold, (1.0, 0.25, 0.5) giving 2.0 and (1.0, 0.1, 0.036)
\* giving 0.36.
C1_PlainRatio ==
    /\ Returned("adjusted_factor")
         /\ ValidAdjustArgs(call.args[1], call.args[2], call.args[3])
       => /\ outcome.kind = "value"
          /\ RMul(outcome.val, call.args[2]) = RMul(call.args[1], call.args[3])
    /\ test.name = "adjusted_factor" => test.passed
    /\ test.name = "adjusted_factor" /\ test.row = 4
       => /\ adjusted_factor_params[4].actual_rate = Rat(1, 4)
          /\ adjusted_factor_params[4].desired_sample_rate = Rat(1, 2)
          /\ outcome = Value(Rat(2, 1))
    /\ test.name = "adjusted_factor" /\ test.row = 2
       => /\ adjusted_factor_params[2].actual_rate = Rat(1, 10)
          /\ adjusted_factor_params[2].desired_sample_rate = Rat(36, 1000)
          /\ outcome = Value(Rat(36, 100))

\* C1's case: the test's (1.0, 0.25, 0.5) has returned 2.0
C1_Witness ==
    /\ test.name = "adjusted_factor" /\ test.row = 4 /\ test.passed
    /\ outcome = Value(Rat(2, 1))

\* C2: idempotence: with actual_rate = desired_sample_rate = r in (0, 1] and
\* prev_factor f > 0, adjusted_factor(f, r, r) returns f unchanged; the
\* test's two cases of it (rows 1 and 3) hold.
C2_Idempotent ==
    /\ Returned("adjusted_factor")
         /\ call.args[2] = call.args[3]
         /\ ValidAdjustArgs(call.args[1], call.args[2], call.args[3])
       => outcome = Value(call.args[1])
    /\ test.name = "adjusted_factor"
         /\ adjusted_factor_params[test.row].actual_rate
              = adjusted_factor_params[test.row].desired_sample_rate
       => /\ test.passed
          /\ outcome = Value(adjusted_factor_params[test.row].prev_factor)

\* C2's case: a factor other than 1 came back unchanged at equal rates
C2_Witness ==
    /\ Returned("adjusted_factor")
    /\ call.args[2] = call.args[3]
    /\ ValidAdjustArgs(call.args[1], call.args[2], call.args[3])
    /\ call.args[1] # One
    /\ call.args[2] # One
    /\ outcome = Value(call.args[1])

\* C3: apply_dynamic_factor fails, returning nothing and leaving everything
\* else as it was, exactly when base_sample_rate < 0, base_sample_rate > 1 or
\* x <= 0, and returns a value for every other input, the endpoints 0.0 and
\* 1.0 included; the invalid-parameter test's cases all raise.
C3_ApplyErrors ==
    /\ Returned("apply_dynamic_factor")
       => /\ outcome.kind = "error" <=> ~ValidApplyArgs(call.args[1], call.args[2])
          /\ outcome.kind = "value" <=> ValidApplyArgs(call.args[1], call.args[2])
          /\ outcome.kind = "error" => outcome.val = None /\ test = NoTest /\ loop = NoLoop
    /\ test.name = "invalid_params" => test.passed /\ outcome = Error
    /\ test.name = "valid_params" => outcome.kind = "value"

\* C3's case: a rate above 1 with a positive factor has failed
C3_Witness ==
    /\ Returned("apply_dynamic_factor")
    /\ RLt(One, call.args[1])
    /\ RLt(Zero, call.args[2])
    /\ outcome = Error

\* C4: for every x > 0, apply_dynamic_factor(0.0, x) is x and
\* apply_dynamic_factor(1.0, x) is 1.0; the test's two boundary cases
\* ((0.0, 2.0) -> 2.0 and (1.0, 4.0) -> 1.0) hold.
C4_Boundaries ==
    /\ Returned("apply_dynamic_factor") /\ RLt(Zero, call.args[2])
       => /\ call.args[1] = Zero
             => outcome.kind = "value" /\ RootIs(outcome.val, call.args[2])
          /\ call.args[1] = One
             => outcome.kind = "value" /\ RootIs(outcome.val, One)
    /\ test.name = "valid_params"
         /\ valid_params[test.row].base_sample_rate \in {Zero, One}
       => test.passed

\* C4's case: at rate 1.0 a factor other than 1 was cancelled to 1.0
C4_Witness ==
    /\ Returned("apply_dynamic_factor")
    /\ call.args[1] = One
    /\ RLt(One, call.args[2])
    /\ outcome.kind = "value"
    /\ RootIs(outcome.val, One)

\* the design formula's square: x^2 * (1 - base_sample_rate) + base_sample_rate^2
DesignSquare(b, x) == RAdd(RMul(RMul(x, x), RSub(One, b)), RMul(b, b))

\* the result meets the design formula
MeetsDesign(root, b, x) == RootSquareIs(root, DesignSquare(b, x))

C6_AdjustErrors ==
    Returned("adjusted_factor")
      /\ (RLe(call.args[2], Zero) \/ RLe(call.args[3], Zero))
    => outcome = Error

\* C6's case: a positive actual_rate with desired_sample_rate 0 has failed
C6_Witness ==
    /\ Returned("adjusted_factor")
    /\ RLt(Zero, call.args[2])
    /\ call.args[3] = Zero
    /\ outcome = Error

\* C7: in the feedback loop, after one adjustment the observed rate equals
\* the desired rate, and in every later period adjusted_factor returns the
\* factor unchanged: the loop stays at its fixed point.  Started from the
\* test's first period (1.0, 0.1, 0.036) the loop is in the test's second
\* period (0.36, 0.036, 0.036) after one adjustment and keeps the factor the
\* test expects.
C7_FixedPoint ==
    /\ loop.period >= 1 => loop.actual = loop.desired
    /\ loop.period >= 2 => loop.factor = loop.prev
    /\ loop.period >= 1
       => loop.factor = RMul(loop.first[1], RDiv(loop.first[3], loop.first[2]))
    /\ LET p == adjusted_factor_params
       IN  loop.first = <<p[2].prev_factor, p[2].actual_rate, p[2].desired_sample_rate>>
             /\ loop.period >= 1
           => /\ loop.factor = p[2].expected_adj_factor
              /\ <<loop.factor, loop.actual, loop.desired>>
                   = <<p[3].prev_factor, p[3].actual_rate, p[3].desired_sample_rate>>
              /\ loop.period >= 2 => loop.factor = p[3].expected_adj_factor

\* C7's case: a loop that had to change its factor has held it for a period
C7_Witness ==
    /\ loop.period >= 2
    /\ loop.first[2] # loop.first[3]
    /\ loop.factor # loop.first[1]
    /\ loop.factor = loop.prev
    /\ loop.actual = loop.desired

----------------------------------------------------------------------------
(* Part 2: the source-map debug endpoint.                                  *)
(*                                                                         *)
(* Strings the code only compares are strings here; an absent string is    *)
(* None.  A URL is a string and the URL functions are tables over the      *)
(* URLs of the model.  The project asked about is "p1", in one             *)
(* organization.                                                           *)

MIN_JS_SDK_VERSION_FOR_DEBUG_IDS == [release |-> <<7, 56, 0>>, suffix |-> ""]

NO_DEBUG_ID_SDKS ==
    { "sentry.javascript.capacitor", "sentry.javascript.react-native",
      "sentry.javascript.wasm", "sentry.javascript.cordova",
      "sentry.javascript.nextjs", "sentry.javascript.sveltekit" }

\* the list used when the release registry gives no JavaScript SDK
FALLBACK_OFFICIAL_SDKS ==
    { "sentry.javascript.angular", "sentry.javascript.angular-ivy",
      "sentry.javascript.browser", "sentry.javascript.capacitor",
      "sentry.javascript.cordova", "sentry.javascript.electron",
      "sentry.javascript.gatsby", "sentry.javascript.nextjs",
      "sentry.javascript.node", "sentry.javascript.opentelemetry-node",
      "sentry.javascript.react", "sentry.javascript.react-native",
      "sentry.javascript.remix", "sentry.javascript.svelte",
      "sentry.javascript.sveltekit", "sentry.javascript.vue" }

\* debug_ids[0:100]
DEBUG_ID_QUERY_LIMIT == 100

PROJECT == "p1"

\* sdk.startswith("sentry.javascript."), over the SDK names of the model
StartsWithSentryJavascript(sdk) ==
    sdk \in FALLBACK_OFFICIAL_SDKS \cup NO_DEBUG_ID_SDKS \cup {"sentry.javascript.bun"}

\* ReleaseFile.normalize(url): the url itself, then "~" and its path
normalize(url) ==
    CASE url = "http://a/app.js" -> <<"http://a/app.js", "~/app.js">>
      [] url = "http://b/app.js" -> <<"http://b/app.js", "~/app.js">>
      [] OTHER -> <<url>>

\* non_standard_url_join(source_file_path, source_map_reference)
get_matching_source_map_location(source_file_path, source_map_reference) ==
    CASE source_file_path = "http://a/app.js" /\ source_map_reference = "app.js.map"
           -> "http://a/app.js.map"
      [] source_file_path = "http://b/app.js" /\ source_map_reference = "app.js.map"
           -> "http://b/app.js.map"
      [] source_file_path = "~/app.js" /\ source_map_reference = "app.js.map"
           -> "~/app.js.map"
      [] OTHER -> source_map_reference

\* ReleaseFile.get_ident(name, dist): a digest of the name, and of the dist
\* when there is one (None and "" give different idents)
get_ident(name, dist) == <<name, dist>>

Range(seq) == {seq[i] : i \in DOMAIN seq}

Min(a, b) == IF a < b THEN a ELSE b

\* debug_image["type"] == "sourcemap", and for a frame also
\* abs_path == debug_image["code_file"]
IsSourcemapImage(debug_image, for_frame, abs_path) ==
    /\ debug_image.type = "sourcemap"
    /\ for_frame => abs_path = debug_image.code_file

\* the indices in lo..hi of the first limit such images (the range is
\* halved, so that long lists need no deep recursion)
RECURSIVE FirstIndices(_, _, _, _, _, _)
FirstIndices(images, lo, hi, for_frame, abs_path, limit) ==
    IF lo > hi \/ limit = 0 THEN {}
    ELSE IF lo = hi
    THEN (IF IsSourcemapImage(images[lo], for_frame, abs_path) THEN {lo} ELSE {})
    ELSE LET mid == (lo + hi) \div 2
             left == FirstIndices(images, lo, mid, for_frame, abs_path, limit)
         IN  left \cup FirstIndices(images, mid + 1, hi, for_frame, abs_path,
                                    limit - Cardinality(left))

\* get_path(event_data, "debug_meta", "images"), None read as []
DebugImages(event_data) ==
    IF event_data.debug_meta_images = Nothing THEN <<>>
    ELSE event_data.debug_meta_images[1]

event_has_debug_ids(event_data) ==
    IF event_data.debug_meta_images = Nothing THEN FALSE
    ELSE \E im \in Range(event_data.debug_meta_images[1]) : im.type = "sourcemap"

\* Version(s): the release numbers and what follows them; no suffix is a
\* final release, "-beta.1" a pre-release, anything else is not a version
VersionParses(s) == Len(s.release) > 0 /\ s.suffix \in {"", "-beta.1"}

Component(release, i) == IF i <= Len(release) THEN release[i] ELSE 0

\* a.release < b.release, shorter releases padded with zeros
RECURSIVE ReleaseLess(_, _, _)
ReleaseLess(a, b, i) ==
    IF i > Len(a) /\ i > Len(b) THEN FALSE
    ELSE IF Component(a, i) # Component(b, i) THEN Component(a, i) < Component(b, i)
    ELSE ReleaseLess(a, b, i + 1)

\* Version(a) >= Version(b), both parsing
VersionGe(a, b) ==
    IF ReleaseLess(a.release, b.release, 1) THEN FALSE
    ELSE IF ReleaseLess(b.release, a.release, 1) THEN TRUE
    ELSE a.suffix = "" \/ b.suffix # ""

Returns(v) == [raised |-> FALSE, value |-> v]
Raises(e) == [raised |-> TRUE, value |-> e]

get_sdk_debug_id_support(event_data) ==
    LET sdk_name == event_data.sdk.name
        registry_sdks ==
            IF sdk_index.ok
            THEN {sdk \in sdk_index.keys : StartsWithSentryJavascript(sdk)}
            ELSE {}
        official_sdks ==
            IF registry_sdks = {} THEN FALLBACK_OFFICIAL_SDKS ELSE registry_sdks
        sdk_version == event_data.sdk.version
    IN  IF sdk_name \notin official_sdks \/ sdk_name = None
        THEN Returns("unofficial-sdk")
        ELSE IF sdk_name \in NO_DEBUG_ID_SDKS THEN Returns("not-supported")
        ELSE IF sdk_version = Nothing THEN Returns("unofficial-sdk")
        ELSE IF ~VersionParses(sdk_version[1]) THEN Raises("InvalidVersion")
        ELSE IF VersionGe(sdk_version[1], MIN_JS_SDK_VERSION_FOR_DEBUG_IDS)
        THEN Returns("full")
        ELSE Returns("needs-upgrade")

\* get_release_files_status_by_url(event, project, release, possible_urls)
get_release_files_status_by_url(event, release, possible_urls) ==
    LET possible_release_files ==
            {f \in db.release_files :
                /\ f.release_id = release
                /\ f.name \in possible_urls
                /\ f.artifact_count # 0}
    IN  IF \E f \in possible_release_files : f.ident = get_ident(f.name, event.dist)
        THEN "found"
        ELSE IF possible_release_files # {} THEN "wrong-dist"
        ELSE "unsuccessful"

\* event.dist or ""
DistOrEmpty(event) == IF event.dist = None THEN "" ELSE event.dist

\* get_artifact_bundle_file_status_by_url(event, project, release, possible_urls)
get_artifact_bundle_file_status_by_url(event, release, possible_urls) ==
    LET possible_release_artifact_bundles ==
            {b \in db.release_artifact_bundles :
                /\ b.release_name = release
                /\ b.project_id = PROJECT
                /\ b.url \in possible_urls}
    IN  IF \E b \in possible_release_artifact_bundles : b.dist_name = DistOrEmpty(event)
        THEN "found"
        ELSE IF possible_release_artifact_bundles # {} THEN "wrong-dist"
        ELSE "unsuccessful"

\* what the code does with one source file it found, a release file
\* (from_bundle FALSE) or a file of an artifact bundle: read the file's
\* source map reference and look the source map up
FoundSourceFile(filenme_choices, found_source_file_path, from_bundle, event, release) ==
    LET reference == db.sourcemap_reference
        inline == reference = "data:"
        matching_source_map_name ==
            IF reference = None \/ inline THEN None
            ELSE get_matching_source_map_location(found_source_file_path, reference)
    IN  [matching_source_file_names |-> filenme_choices,
         matching_source_map_name |-> matching_source_map_name,
         source_map_reference |-> IF inline THEN "Inline Sourcemap" ELSE reference,
         source_file_lookup_result |-> "found",
         source_map_lookup_result |->
            IF matching_source_map_name # None
            THEN IF from_bundle
                 THEN get_artifact_bundle_file_status_by_url(
                          event, release, {matching_source_map_name})
                 ELSE get_release_files_status_by_url(
                          event, release, {matching_source_map_name})
            ELSE IF inline THEN "found"
            ELSE "unsuccessful"]

\* the query without .exclude(artifact_count=0)
possible_release_files_all(filenme_choices, release) ==
    {f \in db.release_files :
        /\ f.release_id = release
        /\ f.name \in Range(filenme_choices)}

\* ReleaseFile.objects.filter(organization_id, release_id, name__in)
\*     .exclude(artifact_count=0)
possible_release_files(filenme_choices, release) ==
    {f \in db.release_files :
        /\ f.release_id = release
        /\ f.name \in Range(filenme_choices)
        /\ f.artifact_count # 0}

\* ReleaseArtifactBundle.objects.filter(organization_id, release_name,
\*     the bundle in the project, the bundle's index listing one of the urls)
possible_release_artifact_bundles(filenme_choices, release) ==
    {b \in db.release_artifact_bundles :
        /\ b.release_name = release
        /\ b.project_id = PROJECT
        /\ b.url \in Range(filenme_choices)}

\* get_source_file_data(abs_path, project, release, event): the set of the
\* results it can give; the rows of a query come in no stated order, and
\* the first matching row decides
get_source_file_data(abs_path, release, event) ==
    LET filenme_choices == normalize(abs_path)
        release_files == possible_release_files(filenme_choices, release)
        matching_release_files ==
            {f \in release_files : f.ident = get_ident(f.name, event.dist)}
        artifact_bundles == possible_release_artifact_bundles(filenme_choices, release)
        matching_release_artifact_bundles ==
            {b \in artifact_bundles : b.dist_name = DistOrEmpty(event)}
    IN  IF matching_release_files # {}
        THEN {FoundSourceFile(filenme_choices, f.name, FALSE, event, release) :
                f \in matching_release_files}
        ELSE IF matching_release_artifact_bundles # {}
        THEN {FoundSourceFile(filenme_choices, b.url, TRUE, event, release) :
                b \in matching_release_artifact_bundles}
        ELSE {[matching_source_file_names |-> filenme_choices,
               matching_source_map_name |-> None,
               source_map_reference |-> None,
               source_file_lookup_result |->
                  IF release_files # {} \/ artifact_bundles # {}
                  THEN "wrong-dist"
                  ELSE "unsuccessful",
               source_map_lookup_result |-> "unsuccessful"]}

\* get_path(stacktrace, "frames"): None for no stacktrace or no frames
FramesOf(stacktrace) == IF stacktrace = Nothing THEN Nothing ELSE stacktrace[1].frames

\* a list that is neither None nor empty
Truthy(list) == list # Nothing /\ list[1] # <<>>

\* the frames the response lists for one exception:
\* raw_stacktrace.frames, or stacktrace.frames when those are None or empty
ResponseFrames(exception_value) ==
    LET frames == IF Truthy(FramesOf(exception_value.raw_stacktrace))
                  THEN FramesOf(exception_value.raw_stacktrace)
                  ELSE FramesOf(exception_value.stacktrace)
    IN  IF frames = Nothing THEN <<>> ELSE frames[1]

ExceptionValues(event_data) ==
    IF event_data.exception_values = Nothing THEN <<>>
    ELSE event_data.exception_values[1]

get_abs_paths_in_event(event_data) ==
    UNION {
        LET stacktrace == IF exception_value.raw_stacktrace # Nothing
                          THEN exception_value.raw_stacktrace
                          ELSE exception_value.stacktrace
            frames == FramesOf(stacktrace)
        IN  IF frames = Nothing THEN {}
            ELSE {frame.abs_path : frame \in
                    {fr \in Range(frames[1]) : fr.abs_path \notin {None, ""}}}
        : exception_value \in Range(ExceptionValues(event_data)) }

\* a debug id as the tables hold it (a UUID), from the event's string and back
ToUuid(debug_id) == [uuid |-> debug_id]
UuidStr(uuid) == uuid.uuid

\* the debug ids the endpoint asks the tables about:
\* those of the event's sourcemap images, [0:100]
QueriedDebugIds(debug_images) ==
    LET first == FirstIndices(debug_images, 1, Len(debug_images), FALSE, None,
                              DEBUG_ID_QUERY_LIMIT)
    IN  {debug_images[i].debug_id : i \in first}

\* the rows of the project's artifact bundles with one of the debug ids
DebugIdArtifactBundles(debug_ids) ==
    {r \in db.debug_id_artifact_bundles :
        /\ r.project_id = PROJECT
        /\ r.debug_id \in {ToUuid(d) : d \in debug_ids}}

debug_ids_with_uploaded_source_file(debug_id_artifact_bundles) ==
    {UuidStr(r.debug_id) :
        r \in {q \in debug_id_artifact_bundles :
                 q.source_file_type \in {"SOURCE", "MINIFIED_SOURCE"}}}

debug_ids_with_uploaded_source_map(debug_id_artifact_bundles) ==
    {UuidStr(r.debug_id) :
        r \in {q \in debug_id_artifact_bundles :
                 q.source_file_type \notin {"SOURCE", "MINIFIED_SOURCE"}
                 /\ q.source_file_type = "SOURCE_MAP"}}

\* the debug id of the first sourcemap image whose code_file is abs_path
FrameDebugId(debug_images, abs_path) ==
    LET matching == FirstIndices(debug_images, 1, Len(debug_images), TRUE, abs_path, 1)
    IN  IF matching = {} THEN None
        ELSE debug_images[CHOOSE i \in matching : TRUE].debug_id

ProcessedFrame(frame, debug_images, with_source_file, with_source_map, path_data) ==
    LET debug_id == FrameDebugId(debug_images, frame.abs_path)
    IN  [debug_id_process |->
            [debug_id |-> debug_id,
             uploaded_source_file_with_correct_debug_id |->
                debug_id \in with_source_file,
             uploaded_source_map_with_correct_debug_id |->
                debug_id \in with_source_map],
         release_process |->
            IF frame.abs_path \in DOMAIN path_data
            THEN Some(path_data[frame.abs_path])
            ELSE Nothing]

ProcessedExceptions(event_data, debug_images, release_process_abs_path_data) ==
    LET debug_id_artifact_bundles ==
            DebugIdArtifactBundles(QueriedDebugIds(debug_images))
        with_source_file ==
            debug_ids_with_uploaded_source_file(debug_id_artifact_bundles)
        with_source_map ==
            debug_ids_with_uploaded_source_map(debug_id_artifact_bundles)
    IN  [e \in DOMAIN ExceptionValues(event_data) |->
            LET frames == ResponseFrames(ExceptionValues(event_data)[e])
            IN  [frames |->
                    [k \in DOMAIN frames |->
                        ProcessedFrame(frames[k], debug_images, with_source_file,
                                       with_source_map,
                                       release_process_abs_path_data)]]]

NotFound(detail) == [status |-> 404, detail |-> detail]
ServerError(exception) == [status |-> 500, exception |-> exception]
Response(data) == [status |-> 200, data |-> data]

\* Release.objects.get(organization, version=event.release), None when the
\* event names no release or the release does not exist
ReleaseOf(event) ==
    IF event.release # None /\ event.release \in db.releases THEN event.release
    ELSE None

\* the results get_source_file_data can give for each abs path of the event
ReleaseProcessChoices(event, release) ==
    IF release = None THEN {<<>>}
    ELSE LET abs_paths == get_abs_paths_in_event(event.data)
         IN  {data \in [abs_paths ->
                          UNION {get_source_file_data(p, release, event) : p \in abs_paths}] :
                \A p \in abs_paths : data[p] \in get_source_file_data(p, release, event)}

\* SourceMapDebugBlueThunderEditionEndpoint.get, past the two NotFound checks
RespondTo(event, release_process_abs_path_data) ==
    LET release == ReleaseOf(event)
        debug_images == DebugImages(event.data)
        support == get_sdk_debug_id_support(event.data)
    IN  IF support.raised THEN ServerError(support.value)
        ELSE Response(
            [dist |-> event.dist,
             release |-> event.release,
             exceptions |-> ProcessedExceptions(event.data, debug_images,
                                                release_process_abs_path_data),
             has_debug_ids |-> event_has_debug_ids(event.data),
             sdk_version |-> event.data.sdk.version,
             project_has_some_artifact_bundle |->
                \/ \E b \in db.release_artifact_bundles : b.project_id = PROJECT
                \/ \E r \in db.debug_id_artifact_bundles : r.project_id = PROJECT,
             release_has_some_artifact |->
                /\ release # None
                /\ \/ \E f \in db.release_files : f.release_id = release
                   \/ \E b \in db.release_artifact_bundles : b.release_name = release,
             has_uploaded_some_artifact_with_a_debug_id |->
                \E r \in db.debug_id_artifact_bundles : r.project_id = PROJECT,
             sdk_debug_id_support |-> support.value])

\* GET /projects/{org}/{project}/events/{event_id}/source-map-debug-blue-thunder-edition/
Get ==
    /\ response = NoResponse
    /\ IF ~features
       THEN response' = NotFound("Endpoint not available without feature flag")
       ELSE IF eventstore = {}
       THEN response' = NotFound("Event not found")
       ELSE \E event \in eventstore :
              \E data \in ReleaseProcessChoices(event, ReleaseOf(event)) :
                response' = RespondTo(event, data)
    /\ UNCHANGED <<features, eventstore, db, sdk_index, samplingVars>>

----------------------------------------------------------------------------
(* Part 2: the events and table rows a request may find.                   *)

\* all subsets of rows with at most k elements
RECURSIVE SubsetsUpTo(_, _)
SubsetsUpTo(rows, k) ==
    IF k = 0 THEN {{}}
    ELSE LET smaller == SubsetsUpTo(rows, k - 1)
         IN  smaller \cup {s \cup {r} : s \in smaller, r \in rows}

\* all sequences over elems with at most k elements
RECURSIVE SeqsUpTo(_, _)
SeqsUpTo(elems, k) ==
    IF k = 0 THEN {<<>>}
    ELSE LET shorter == SeqsUpTo(elems, k - 1)
         IN  shorter \cup {Append(q, e) : q \in shorter, e \in elems}

Frame(abs_path) == [abs_path |-> abs_path]

Stacktrace(frames) == Some([frames |-> Some(frames)])

FinalVersion(release) == Some([release |-> release, suffix |-> ""])

BrowserSdk == [name |-> "sentry.javascript.browser", version |-> FinalVersion(<<7, 56, 0>>)]

\* an event with one exception whose stacktrace has the given frames
EventWith(dist, release, sdk, images, frames) ==
    [dist |-> dist, release |-> release,
     data |-> [sdk |-> sdk,
               debug_meta_images |-> images,
               exception_values |->
                  Some(<<[raw_stacktrace |-> Nothing, stacktrace |-> Stacktrace(frames)]>>)]]

\* ---- release artifacts

MaxArtifacts == 2   \* release files and release artifact bundles, together

Urls == {"http://a/app.js", "~/app.js", "http://a/app.js.map", "~/app.js.map"}

Releases == {"r1", "r2"}

\* a release file is uploaded for a dist or for none; its ident is made then
ReleaseFileRows ==
    {[table |-> "releasefile", release_id |-> r, name |-> n,
      ident |-> get_ident(n, d), artifact_count |-> c] :
        r \in Releases, n \in Urls, d \in {None, "d1"}, c \in {0, 1}}

\* a release artifact bundle, with one url its index lists
ReleaseArtifactBundleRows ==
    {[table |-> "releaseartifactbundle", release_name |-> r, dist_name |-> d,
      project_id |-> p, url |-> u] :
        r \in Releases, d \in {"", "d1"}, p \in {PROJECT, "p2"}, u \in Urls}

ReleaseInit ==
    /\ SamplingIdle
    /\ LoopIdle
    /\ features = TRUE
    /\ sdk_index = NoRegistry
    /\ response = NoResponse
    /\ \E dist \in {None, "d1"} :
          eventstore = {EventWith(dist, "r1", BrowserSdk, Nothing,
                                  <<Frame("http://a/app.js"), Frame(None)>>)}
    /\ \E rows \in SubsetsUpTo(ReleaseFileRows \cup ReleaseArtifactBundleRows, MaxArtifacts),
          reference \in {None, "data:", "app.js.map"} :
          db = [EmptyDb EXCEPT
                  !.releases = Releases,
                  !.release_files = {r \in rows : r.table = "releasefile"},
                  !.release_artifact_bundles =
                      {r \in rows : r.table = "releaseartifactbundle"},
                  !.sourcemap_reference = reference]

ReleaseSpec == ReleaseInit /\ [][Get]_vars

\* ---- debug ids

MaxDebugItems == 3  \* debug images after the padding and table rows, together

DebugIds == {"id1", "id2"}

SourceFileTypes == {"SOURCE", "MINIFIED_SOURCE", "SOURCE_MAP", "INDEXED_RAM_BUNDLE"}

DebugIdRows ==
    {[debug_id |-> ToUuid(d), source_file_type |-> t, project_id |-> p] :
        d \in DebugIds, t \in SourceFileTypes, p \in {PROJECT, "p2"}}

Images ==
    {[type |-> "sourcemap", code_file |-> c, debug_id |-> d] :
        c \in {"http://a/app.js", "http://b/app.js"}, d \in DebugIds}
    \cup {[type |-> "macho", code_file |-> "http://a/app.js", debug_id |-> "id1"]}

\* n sourcemap images of a file no frame is in
Padding(n) ==
    [i \in 1..n |-> [type |-> "sourcemap", code_file |-> "http://a/pad.js",
                     debug_id |-> "id0"]]

DebugIdInit ==
    /\ SamplingIdle
    /\ LoopIdle
    /\ features = TRUE
    /\ sdk_index = NoRegistry
    /\ response = NoResponse
    /\ \E tail \in SeqsUpTo(Images, MaxDebugItems) :
          /\ \E images \in {Nothing} \cup
                  {Some(Padding(n) \o tail) :
                     n \in {0, DEBUG_ID_QUERY_LIMIT - 1}} :
                eventstore = {EventWith(None, None, BrowserSdk, images,
                                        <<Frame("http://a/app.js"),
                                          Frame("http://b/app.js"), Frame(None)>>)}
          /\ \E rows \in SubsetsUpTo(DebugIdRows, MaxDebugItems - Len(tail)) :
                db = [EmptyDb EXCEPT !.debug_id_artifact_bundles = rows]

DebugIdSpec == DebugIdInit /\ [][Get]_vars

\* ---- SDKs

SdkNames ==
    { None, "sentry.javascript.browser", "sentry.javascript.react",
      "sentry.javascript.nextjs", "sentry.javascript.wasm", "sentry.javascript.bun",
      "sentry.python" }

SdkVersions ==
    {Nothing}
    \cup {FinalVersion(r) : r \in {<<7, 55, 9>>, <<7, 56, 0>>, <<7, 56>>, <<7, 100, 0>>,
                                   <<8, 0, 0>>, <<6, 99, 99>>}}
    \cup {Some([release |-> <<7, 56, 0>>, suffix |-> "-beta.1"]),
          Some([release |-> <<7, 57, 0>>, suffix |-> "-beta.1"]),
          Some([release |-> <<7, 57, 0>>, suffix |-> "-custom"]),
          Some([release |-> <<>>, suffix |-> "unknown"])}

\* get_sdk_index() raising, returning nothing, or returning a registry
Registries ==
    { NoRegistry,
      [ok |-> TRUE, keys |-> {}],
      [ok |-> TRUE, keys |-> {"sentry.python"}],
      [ok |-> TRUE, keys |-> {"sentry.python", "sentry.javascript.browser",
                              "sentry.javascript.wasm", "sentry.javascript.bun"}],
      [ok |-> TRUE, keys |-> {"sentry.javascript.nextjs", "sentry.javascript.react"}] }

SdkInit ==
    /\ SamplingIdle
    /\ LoopIdle
    /\ features \in BOOLEAN
    /\ db = EmptyDb
    /\ response = NoResponse
    /\ sdk_index \in Registries
    /\ eventstore \in
          {{}} \cup {{EventWith(None, None, [name |-> n, version |-> v], Nothing, <<>>)} :
                       n \in SdkNames, v \in SdkVersions}

SdkSpec == SdkInit /\ [][Get]_vars

----------------------------------------------------------------------------
(* Part 2: the claims about the endpoint.                                  *)

TheEvent == CHOOSE event \in eventstore : TRUE

Answered == response.status = 200 /\ eventstore # {}

\* the frames of the answer, as (exception, frame) index pairs
AnsweredFrames ==
    UNION {{<<e, k>> : k \in DOMAIN response.data.exceptions[e].frames} :
              e \in DOMAIN response.data.exceptions}

EventFrame(ek) ==
    ResponseFrames(ExceptionValues(TheEvent.data)[ek[1]])[ek[2]]

AnswerFrame(ek) == response.data.exceptions[ek[1]].frames[ek[2]]

\* the release files and artifact bundles that are candidates for abs_path:
\* of the event's release, named (or indexed) by one of the normalized
\* names, the files with artifacts, the bundles in the project
CandidateFiles(abs_path) ==
    {f \in db.release_files :
        /\ f.release_id = TheEvent.release
        /\ \E i \in DOMAIN normalize(abs_path) : f.name = normalize(abs_path)[i]
        /\ f.artifact_count > 0}

CandidateBundles(abs_path) ==
    {b \in db.release_artifact_bundles :
        /\ b.release_name = TheEvent.release
        /\ b.project_id = PROJECT
        /\ \E i \in DOMAIN normalize(abs_path) : b.url = normalize(abs_path)[i]}

FileHasEventDist(f) == f.ident = <<f.name, TheEvent.dist>>

BundleHasEventDist(b) ==
    \/ TheEvent.dist = None /\ b.dist_name = ""
    \/ TheEvent.dist # None /\ b.dist_name = TheEvent.dist

\* C8: for every frame the answer gives a release_process, the source file
\* lookup result is "found" exactly when a candidate release file has the
\* ident of the event's dist or a candidate artifact bundle has the event's
\* dist ("" for none); otherwise "wrong-dist" exactly when there is any
\* candidate; otherwise "unsuccessful".  So a wrong-dist release file does
\* not hide an artifact bundle of the right dist.
C8_SourceFileLookup ==
    Answered =>
      \A ek \in AnsweredFrames :
        AnswerFrame(ek).release_process # Nothing =>
          LET abs_path == EventFrame(ek).abs_path
              result == AnswerFrame(ek).release_process[1].source_file_lookup_result
              found == \/ \E f \in CandidateFiles(abs_path) : FileHasEventDist(f)
                       \/ \E b \in CandidateBundles(abs_path) : BundleHasEventDist(b)
              any == CandidateFiles(abs_path) # {} \/ CandidateBundles(abs_path) # {}
          IN  /\ result \in {"found", "wrong-dist", "unsuccessful"}
              /\ result = "found" <=> found
              /\ result = "wrong-dist" <=> ~found /\ any
              /\ result = "unsuccessful" <=> ~any

\* C8's case: the answer says "found" for a frame whose only candidate
\* release file has the wrong dist, because an artifact bundle has the right one
C8_Witness ==
    /\ Answered
    /\ \E ek \in AnsweredFrames :
         /\ AnswerFrame(ek).release_process # Nothing
         /\ AnswerFrame(ek).release_process[1].source_file_lookup_result = "found"
         /\ CandidateFiles(EventFrame(ek).abs_path) # {}
         /\ \A f \in CandidateFiles(EventFrame(ek).abs_path) : ~FileHasEventDist(f)
         /\ \E b \in CandidateBundles(EventFrame(ek).abs_path) : BundleHasEventDist(b)

\* the SDK names the code takes as official
OfficialSdks ==
    IF sdk_index.ok /\ \E k \in sdk_index.keys : StartsWithSentryJavascript(k)
    THEN {k \in sdk_index.keys : StartsWithSentryJavascript(k)}
    ELSE FALLBACK_OFFICIAL_SDKS

\* version >= 7.56.0, which no string that is not a version is
AtLeastMinVersion(version) ==
    /\ VersionParses(version)
    /\ ~ReleaseLess(version.release, <<7, 56, 0>>, 1)
    /\ version.suffix # "" => ReleaseLess(<<7, 56, 0>>, version.release, 1)

\* the support level C9 states for an event
ClaimedSupport(event) ==
    LET name == event.data.sdk.name
        version == event.data.sdk.version
    IN  IF name = None \/ name \notin OfficialSdks THEN "unofficial-sdk"
        ELSE IF name \in NO_DEBUG_ID_SDKS THEN "not-supported"
        ELSE IF version = Nothing THEN "unofficial-sdk"
        ELSE IF AtLeastMinVersion(version[1]) THEN "full"
        ELSE "needs-upgrade"

Requested == response # NoResponse /\ features /\ eventstore # {}

\* C9: for every event the endpoint answers, and the answer's
\* sdk_debug_id_support is the level the claim's order of decisions gives:
\* "unofficial-sdk" for a missing or unofficial SDK name, else "not-supported"
\* for an SDK in NO_DEBUG_ID_SDKS, else "unofficial-sdk" for a missing
\* version, else "full" if the version is at least 7.56.0, else "needs-upgrade".
C9_SdkDebugIdSupport ==
    Requested =>
      /\ response.status = 200
      /\ response.data.sdk_debug_id_support = ClaimedSupport(TheEvent)

\* C9, for the events whose SDK version (if it is read) is a version
C9_SdkDebugIdSupportOfVersions ==
    Requested /\ response.status = 200 =>
      response.data.sdk_debug_id_support = ClaimedSupport(TheEvent)

\* C9's failing case: an official SDK that supports debug ids, with a
\* version string that is no version
C9_Witness ==
    /\ Requested
    /\ TheEvent.data.sdk.name = "sentry.javascript.browser"
    /\ TheEvent.data.sdk.version # Nothing
    /\ ~VersionParses(TheEvent.data.sdk.version[1])
    /\ response.status = 500

\* the debug id of a frame: that of the first sourcemap image whose
\* code_file is the frame's abs_path
DebugIdOf(frame) ==
    LET images == DebugImages(TheEvent.data)
        at == {i \in DOMAIN images :
                 images[i].type = "sourcemap" /\ images[i].code_file = frame.abs_path}
    IN  IF at = {} THEN None
        ELSE images[CHOOSE i \in at : \A j \in at : i <= j].debug_id

\* the project has an uploaded artifact of one of the types with the debug id
Uploaded(debug_id, types) ==
    \E r \in db.debug_id_artifact_bundles :
        /\ r.project_id = PROJECT
        /\ r.debug_id = ToUuid(debug_id)
        /\ r.source_file_type \in types

\* the debug id is that of one of the event's first 100 sourcemap images
AmongFirstSourcemapImages(debug_id) ==
    LET images == DebugImages(TheEvent.data)
    IN  \E i \in {j \in DOMAIN images :
                    images[j].type = "sourcemap" /\ images[j].debug_id = debug_id} :
            Cardinality({j \in 1..(i - 1) : images[j].type = "sourcemap"})
                < DEBUG_ID_QUERY_LIMIT

\* C10 as claimed, for events with any number of sourcemap images: each
\* frame's uploaded_source_file_with_correct_debug_id is true exactly when the
\* frame has a debug id and the project has a SOURCE or MINIFIED_SOURCE
\* artifact with it, uploaded_source_map_with_correct_debug_id exactly when
\* it has a SOURCE_MAP artifact with it; without a debug id both are false;
\* a frame with a debug id implies has_debug_ids.
C10_DebugIdFlags ==
    Answered =>
      \A ek \in AnsweredFrames :
        LET process == AnswerFrame(ek).debug_id_process
            debug_id == DebugIdOf(EventFrame(ek))
        IN  /\ process.debug_id = debug_id
            /\ process.uploaded_source_file_with_correct_debug_id
                 <=> debug_id # None /\ Uploaded(debug_id, {"SOURCE", "MINIFIED_SOURCE"})
            /\ process.uploaded_source_map_with_correct_debug_id
                 <=> debug_id # None /\ Uploaded(debug_id, {"SOURCE_MAP"})
            /\ process.debug_id # None => response.data.has_debug_ids

\* What the endpoint does: the same, with each flag true only if, besides,
\* the debug id is that of one of the event's first 100 sourcemap images (the
\* only ones the endpoint looks up, while a frame's debug id comes from any).
C10_DebugIdFlagsOfFirstImages ==
    Answered =>
      \A ek \in AnsweredFrames :
        LET process == AnswerFrame(ek).debug_id_process
            debug_id == DebugIdOf(EventFrame(ek))
        IN  /\ process.debug_id = debug_id
            /\ process.uploaded_source_file_with_correct_debug_id
                 <=> /\ debug_id # None
                     /\ AmongFirstSourcemapImages(debug_id)
                     /\ Uploaded(debug_id, {"SOURCE", "MINIFIED_SOURCE"})
            /\ process.uploaded_source_map_with_correct_debug_id
                 <=> /\ debug_id # None
                     /\ AmongFirstSourcemapImages(debug_id)
                     /\ Uploaded(debug_id, {"SOURCE_MAP"})
            /\ process.debug_id = None
                 => /\ ~process.uploaded_source_file_with_correct_debug_id
                    /\ ~process.uploaded_source_map_with_correct_debug_id
            /\ process.debug_id # None => response.data.has_debug_ids

\* C10's case: a frame whose debug id is past the first 100 sourcemap
\* images has both flags false although the project has its source file
C10_Witness ==
    /\ Answered
    /\ \E ek \in AnsweredFrames :
         /\ AnswerFrame(ek).debug_id_process.debug_id # None
         /\ ~AmongFirstSourcemapImages(AnswerFrame(ek).debug_id_process.debug_id)
         /\ Uploaded(AnswerFrame(ek).debug_id_process.debug_id, {"SOURCE"})
         /\ ~AnswerFrame(ek).debug_id_process.uploaded_source_file_with_correct_debug_id

\* the fields of SourceMapDebugResponse
SourceMapDebugResponseFields ==
    { "dist", "release", "exceptions", "has_debug_ids", "sdk_version",
      "project_has_some_artifact_bundle", "release_has_some_artifact",
      "has_uploaded_some_artifact_with_a_debug_id", "sdk_debug_id_support" }

\* the answer is a response with the nine fields
NineFields == response.status = 200 /\ DOMAIN response.data = SourceMapDebugResponseFields

\* the answer is NotFound for the feature being off
FeatureNotFound == response = NotFound("Endpoint not available without feature flag")

\* C11: the GET fails with NotFound when the feature is off, whether or not
\* the event exists; fails with NotFound when the feature is on and the
\* project has no event of the id; and in every other case answers with a
\* response carrying all nine fields of SourceMapDebugResponse.
C11_NotFoundOrNineFields ==
    response # NoResponse =>
      /\ ~features => FeatureNotFound
      /\ features /\ eventstore = {} => response = NotFound("Event not found")
      /\ features /\ eventstore # {} => NineFields

\* C11, with the last case only for the events whose SDK version (if it is
\* read) is a version
C11_NotFoundOrNineFieldsOfVersions ==
    response # NoResponse =>
      /\ ~features => FeatureNotFound
      /\ features /\ eventstore = {} => response = NotFound("Event not found")
      /\ features /\ eventstore # {} /\ ~get_sdk_debug_id_support(TheEvent.data).raised
         => NineFields

\* C11's failing case: the feature is on, the event exists, and the answer is
\* neither NotFound nor the nine fields
C11_Witness ==
    /\ features
    /\ eventstore # {}
    /\ response = ServerError("InvalidVersion")
    /\ response.status # 404 /\ ~NineFields

\* C11's 404s: the feature is off and the event exists, and the answer is NotFound
C11_FeatureOffWitness ==
    ~features /\ eventstore # {} /\ FeatureNotFound

=============================================================================
